---- MODULE Spec2Model ----
(***************************************************************************)
(* Model of main.py: global_adaptive_thresholding (iterative mean-split    *)
(* threshold) and local_adaptive_thresholding (windowed mean threshold).   *)
(*                                                                         *)
(* Images are sequences of rows of 8-bit samples.  Every real number the   *)
(* program computes (median, means, thresholds, epsilon) is an exact       *)
(* rational, written <<numerator, denominator>> with denominator > 0.      *)
(* <<0, 0>> stands for a name that is not bound yet and for the NaN that   *)
(* np.mean returns on an empty slice (every comparison with it is false).  *)
(***************************************************************************)
EXTENDS Integers, Sequences, FiniteSets, TLC

VARIABLES image, pc, epsilon, tau, tau_new, binary_image,
          arg_w_w, arg_h_w, w_w, h_w, pad_w, pad_h, padded_image,
          y, x, tau_xy

vars == <<image, pc, epsilon, tau, tau_new, binary_image,
          arg_w_w, arg_h_w, w_w, h_w, pad_w, pad_h, padded_image,
          y, x, tau_xy>>

global_vars == <<epsilon, tau, tau_new>>

local_vars == <<arg_w_w, arg_h_w, w_w, h_w, pad_w, pad_h, padded_image,
                y, x, tau_xy>>

(* ---------------------------- bounds ---------------------------------- *)

MaxPixels == 4

MaxWin == 2

(* Sample intensities the images are drawn from (a subset of 0..255). *)
Levels == {0, 10, 200, 255}

(* Convergence tolerances the global call is made with. *)
Epsilons == {<<0 - 1, 1>>, <<0, 1>>, <<1, 2>>, <<1, 1>>, <<128, 1>>}

Shapes == {s \in (1..MaxPixels) \X (1..MaxPixels) : s[1] * s[2] <= MaxPixels}

Images == UNION {[1..s[1] -> [1..s[2] -> Levels]] : s \in Shapes}

WindowSizes == 0..MaxWin

(* ------------------------- exact arithmetic --------------------------- *)

Unbound == <<0, 0>>

IsBound(a) == a[2] # 0

Leq(a, b) == IsBound(a) /\ IsBound(b) /\ a[1] * b[2] <= b[1] * a[2]

Lt(a, b) == IsBound(a) /\ IsBound(b) /\ a[1] * b[2] < b[1] * a[2]

Eq(a, b) == IsBound(a) /\ IsBound(b) /\ a[1] * b[2] = b[1] * a[2]

AbsInt(n) == IF n < 0 THEN 0 - n ELSE n

AbsDiff(a, b) == <<AbsInt(a[1] * b[2] - b[1] * a[2]), a[2] * b[2]>>

HalfSum(a, b) == <<a[1] * b[2] + b[1] * a[2], 2 * a[2] * b[2]>>

Whole(n) == <<n, 1>>

(* ------------------------- array helpers ------------------------------ *)

Height(img) == Len(img)

Width(img) == Len(img[1])

(* The samples of an array in row-major order. *)
RECURSIVE Flatten(_)
Flatten(img) == IF img = <<>> THEN <<>> ELSE Head(img) \o Flatten(Tail(img))

RECURSIVE SumSeq(_)
SumSeq(s) == IF s = <<>> THEN 0 ELSE Head(s) + SumSeq(Tail(s))

np_mean(s) == <<SumSeq(s), Len(s)>>

np_median(s) ==
  LET sorted == SortSeq(s, <)
      n == Len(s)
  IN IF n % 2 = 1 THEN Whole(sorted[(n + 1) \div 2])
     ELSE <<sorted[n \div 2] + sorted[n \div 2 + 1], 2>>

(* ------------------- global_adaptive_thresholding --------------------- *)

group_low(img, t) ==
  LET Low(p) == Leq(Whole(p), t) IN SelectSeq(Flatten(img), Low)

group_high(img, t) ==
  LET High(p) == Lt(t, Whole(p)) IN SelectSeq(Flatten(img), High)

group_mean(g) == IF Len(g) > 0 THEN np_mean(g) ELSE Whole(0)

threshold_step(img, t) ==
  HalfSum(group_mean(group_low(img, t)), group_mean(group_high(img, t)))

converged_strict(t, tnew, eps) == Lt(AbsDiff(t, tnew), eps)

converged(t, tnew, eps) == Leq(AbsDiff(t, tnew), eps)

tau_update_stale(t, tnew) == t

tau_update(t, tnew) == tnew

global_binarize_old(img, t, tnew) ==
  [i \in 1..Height(img) |->
     [j \in 1..Width(img) |-> IF Lt(t, Whole(img[i][j])) THEN 255 ELSE 0]]

global_binarize(img, t, tnew) ==
  [i \in 1..Height(img) |->
     [j \in 1..Width(img) |-> IF Lt(tnew, Whole(img[i][j])) THEN 255 ELSE 0]]

(* ------------------- local_adaptive_thresholding ---------------------- *)

odd_coerce_none(n) == n

odd_coerce_positive(n) == IF n % 2 = 1 \/ n = 0 THEN n ELSE n + 1

odd_coerce(n) == IF n % 2 = 1 THEN n ELSE n + 1

Clamp(i, lo, hi) == IF i < lo THEN lo ELSE IF i > hi THEN hi ELSE i

copyMakeBorder(img, top, bottom, left, right) ==
  [i \in 1..(Height(img) + top + bottom) |->
     [j \in 1..(Width(img) + left + right) |->
        img[Clamp(i - top, 1, Height(img))][Clamp(j - left, 1, Width(img))]]]

MinInt(a, b) == IF a < b THEN a ELSE b

(* padded[y_start:y_end, x_start:x_end], 0-based and half-open; a slice
   that runs past the array ends at the array's edge. *)
slice(padded, y_start, y_end, x_start, x_end) ==
  LET rows == (y_start + 1)..MinInt(y_end, Height(padded))
      cols == (x_start + 1)..MinInt(x_end, Width(padded))
      Row(i) == [k \in 1..Cardinality(cols) |-> padded[i][x_start + k]]
  IN [k \in 1..Cardinality(rows) |-> Row(y_start + k)]

neighborhood(padded, yy, xx, ww, hw, pw, ph) ==
  LET x_start == xx + pw
      x_end == x_start + ww
      y_start == yy + ph
      y_end == y_start + hw
  IN slice(padded, y_start, y_end, x_start, x_end)

local_threshold(padded, yy, xx, ww, hw, pw, ph) ==
  np_mean(Flatten(neighborhood(padded, yy, xx, ww, hw, pw, ph)))

pixel_value_unscaled(p, t) == IF Lt(t, Whole(p)) THEN 1 ELSE 0

pixel_value_geq(p, t) == IF Leq(t, Whole(p)) THEN 255 ELSE 0

pixel_value(p, t) == IF Lt(t, Whole(p)) THEN 255 ELSE 0

zeros_like(img) == [i \in 1..Height(img) |-> [j \in 1..Width(img) |-> 0]]

(* The whole result of one call, pixel by pixel as the loop computes it. *)
local_adaptive_thresholding(img, ww0, hw0) ==
  LET ww == odd_coerce(ww0)
      hw == odd_coerce(hw0)
      pw == ww \div 2
      ph == hw \div 2
      padded == copyMakeBorder(img, ph, ph, pw, pw)
  IN [i \in 1..Height(img) |->
        [j \in 1..Width(img) |->
           pixel_value(img[i][j],
                       local_threshold(padded, i - 1, j - 1, ww, hw, pw, ph))]]

(* ------------------------------ state --------------------------------- *)

Init ==
  /\ image \in Images
  /\ pc = "main"
  /\ epsilon = Unbound
  /\ tau = Unbound
  /\ tau_new = Unbound
  /\ binary_image = <<>>
  /\ arg_w_w = 0 - 1
  /\ arg_h_w = 0 - 1
  /\ w_w = 0 - 1
  /\ h_w = 0 - 1
  /\ pad_w = 0 - 1
  /\ pad_h = 0 - 1
  /\ padded_image = <<>>
  /\ y = 0 - 1
  /\ x = 0 - 1
  /\ tau_xy = Unbound

(* main calls global_adaptive_thresholding(input_image, epsilon); the
   function sets tau to the median and enters the loop. *)
CallGlobal ==
  /\ pc = "main"
  /\ \E eps \in Epsilons : epsilon' = eps
  /\ tau' = np_median(Flatten(image))
  /\ pc' = "g_loop"
  /\ UNCHANGED <<image, tau_new, binary_image>>
  /\ UNCHANGED local_vars

(* One pass of the while loop; the pass that breaks also binarizes and
   returns. *)
GlobalIter ==
  /\ pc = "g_loop"
  /\ \E tnew \in {threshold_step(image, tau)} :
        /\ tau_new' = tnew
        /\ IF converged(tau, tnew, epsilon)
             THEN /\ tau' = tau
                  /\ binary_image' = global_binarize(image, tau, tnew)
                  /\ pc' = "g_done"
             ELSE /\ tau' = tau_update(tau, tnew)
                  /\ binary_image' = binary_image
                  /\ pc' = "g_loop"
  /\ UNCHANGED <<image, epsilon>>
  /\ UNCHANGED local_vars

(* main calls local_adaptive_thresholding(input_image, w_w, h_w); the
   function allocates the output, coerces the window and pads the image. *)
CallLocal ==
  /\ pc = "main"
  /\ \E a \in WindowSizes, b \in WindowSizes :
       /\ arg_w_w' = a
       /\ arg_h_w' = b
       /\ w_w' = odd_coerce(a)
       /\ h_w' = odd_coerce(b)
  /\ pad_w' = w_w' \div 2
  /\ pad_h' = h_w' \div 2
  /\ padded_image' = copyMakeBorder(image, pad_h', pad_h', pad_w', pad_w')
  /\ binary_image' = zeros_like(image)
  /\ pc' = "l_loop"
  /\ UNCHANGED <<image, y, x, tau_xy>>
  /\ UNCHANGED global_vars

LastPixel == y = Height(image) - 1 /\ x = Width(image) - 1

(* One pass of the inner loop body, for the next (y, x) in row-major order. *)
LocalPixel ==
  /\ pc = "l_loop"
  /\ ~LastPixel
  /\ IF y = 0 - 1 THEN y' = 0 /\ x' = 0
     ELSE IF x + 1 < Width(image) THEN y' = y /\ x' = x + 1
     ELSE y' = y + 1 /\ x' = 0
  /\ tau_xy' = local_threshold(padded_image, y', x', w_w, h_w, pad_w, pad_h)
  /\ binary_image' =
       [binary_image EXCEPT ![y' + 1][x' + 1] =
          pixel_value(image[y' + 1][x' + 1], tau_xy')]
  /\ UNCHANGED <<image, pc, arg_w_w, arg_h_w, w_w, h_w, pad_w, pad_h,
                 padded_image>>
  /\ UNCHANGED global_vars

LocalReturn ==
  /\ pc = "l_loop"
  /\ LastPixel
  /\ pc' = "l_done"
  /\ UNCHANGED <<image, binary_image>>
  /\ UNCHANGED local_vars
  /\ UNCHANGED global_vars

Next == CallGlobal \/ GlobalIter \/ CallLocal \/ LocalPixel \/ LocalReturn

Spec == Init /\ [][Next]_vars

(* A call that is inside its while loop runs the next pass of the loop. *)
FairSpec == Spec /\ WF_vars(GlobalIter)

(* ------------------------- claim vocabulary --------------------------- *)

Pixels(img) == {<<i, j>> : i \in 1..Height(img), j \in 1..Width(img)}

PixelValues(img) == {img[p[1]][p[2]] : p \in Pixels(img)}

IsConstant(img) == Cardinality(PixelValues(img)) = 1

Positive(eps) == Lt(Whole(0), eps)

Negative(eps) == Lt(eps, Whole(0))

IsZero(eps) == Eq(eps, Whole(0))

AllSamples(out, v) == \A p \in Pixels(out) : out[p[1]][p[2]] = v

SetMin(S) == CHOOSE m \in S : \A n \in S : m <= n

SetMax(S) == CHOOSE m \in S : \A n \in S : n <= m

InGlobal == pc \in {"g_loop", "g_done"}

InLocal == pc \in {"l_loop", "l_done"}

(* The mean of the full window centred on (yy, xx), 0-based, every
   coordinate outside the image clamped to the nearest edge sample. *)
CentredMean(img, yy, xx, ww, hw) ==
  LET pw == ww \div 2
      ph == hw \div 2
      samples == [k \in 1..(ww * hw) |->
                    img[Clamp(yy + 1 - ph + ((k - 1) \div ww), 1, Height(img))]
                       [Clamp(xx + 1 - pw + ((k - 1) % ww), 1, Width(img))]]
  IN <<SumSeq(samples), ww * hw>>

(* C1: on a constant image of value v with epsilon > 0 the first pass of
   the loop computes tau_new = v, the loop exits in that pass, and every
   output sample is 0. *)
C1_ConstantImageAllZero ==
  (pc \in {"g_loop", "g_done"} /\ IsConstant(image) /\ Positive(epsilon)
     /\ IsBound(tau_new))
    => /\ pc = "g_done"
       /\ Eq(tau_new, Whole(image[1][1]))
       /\ AllSamples(binary_image, 0)

(* C2: the local threshold of the pixel just processed is the mean of
   exactly w_w * h_w samples, the window centred on the pixel with
   out-of-image coordinates clamped to the nearest edge. *)
C2_WindowCentredNotTruncated ==
  (InLocal /\ y >= 0)
    => /\ tau_xy[2] = w_w * h_w
       /\ Eq(tau_xy, CentredMean(image, y, x, w_w, h_w))

(* C3: on an image with exactly two intensities a < b and epsilon > 0 the
   call ends with a <= tau_new < b, every a mapped to 0 and every b to 255. *)
C3_TwoValuedSeparated ==
  (pc = "g_done" /\ Cardinality(PixelValues(image)) = 2 /\ Positive(epsilon))
    => LET a == SetMin(PixelValues(image))
           b == SetMax(PixelValues(image))
       IN /\ Leq(Whole(a), tau_new)
          /\ Lt(tau_new, Whole(b))
          /\ \A p \in Pixels(image) :
               binary_image[p[1]][p[2]] = IF image[p[1]][p[2]] = b THEN 255 ELSE 0

(* C4: with epsilon > 0 the refinement loop always reaches a pass with
   |tau - tau_new| <= epsilon and exits, also when a group is empty. *)
C4_LoopTerminates ==
  (pc = "g_loop" /\ Positive(epsilon))
    ~> (pc = "g_done" /\ converged(tau, tau_new, epsilon))

C4_Witness ==
  /\ pc = "g_done"
  /\ Positive(epsilon)
  /\ ~Eq(tau, np_median(Flatten(image)))
  /\ (group_low(image, tau) = <<>> \/ group_high(image, tau) = <<>>)

(* C5 as stated: on a constant image of 0s or of 255s both functions
   return their input. *)
C5_ConstantBinaryUnchanged ==
  (IsConstant(image) /\ image[1][1] \in {0, 255})
    => /\ (pc = "g_done" /\ Positive(epsilon)) => binary_image = image
       /\ pc = "l_done" => binary_image = image

(* C5 amended: on a constant image of 0s or of 255s the global function
   (epsilon > 0) returns its input, and the local function returns the
   all-zero image, which is its input only for the image of 0s. *)
C5_ConstantBinaryAmended ==
  (IsConstant(image) /\ image[1][1] \in {0, 255})
    => /\ (pc = "g_done" /\ Positive(epsilon)) => binary_image = image
       /\ pc = "l_done" => binary_image = zeros_like(image)

C5_Witness ==
  /\ pc = "l_done"
  /\ IsConstant(image)
  /\ image[1][1] = 255
  /\ w_w = 3

IsEven2(n) == n >= 2 /\ n % 2 = 0

NextOdd(n) == IF IsEven2(n) THEN n + 1 ELSE n

(* C6: a call with an even w_w or h_w (>= 2) returns what the call with
   that dimension incremented returns, each dimension on its own. *)
C6_EvenWindowAsNextOdd ==
  (pc = "l_done" /\ (IsEven2(arg_w_w) \/ IsEven2(arg_h_w))
     /\ (IsEven2(arg_w_w) \/ arg_w_w % 2 = 1)
     /\ (IsEven2(arg_h_w) \/ arg_h_w % 2 = 1))
    => binary_image =
         local_adaptive_thresholding(image, NextOdd(arg_w_w), NextOdd(arg_h_w))

C6_Witness ==
  /\ pc = "l_done"
  /\ arg_w_w = 2
  /\ arg_h_w = 1
  /\ Width(image) = 3
  /\ ~AllSamples(binary_image, 0)

OutputShapeAndRange ==
  (pc \in {"g_done", "l_loop", "l_done"})
    => /\ Height(binary_image) = Height(image)
       /\ \A i \in 1..Height(image) :
            /\ Len(binary_image[i]) = Width(image)
            /\ \A j \in 1..Width(image) : binary_image[i][j] \in {0, 255}

(* C7: the output of either function has the input's width and height,
   every output sample is 0 or 255, and the input image is never changed. *)
C7_ShapeRangeInputKept ==
  []OutputShapeAndRange /\ [][image' = image]_vars

C7_Witness ==
  /\ pc = "l_done"
  /\ Height(image) = 2
  /\ Width(image) = 2
  /\ ~AllSamples(binary_image, 0)
  /\ ~AllSamples(binary_image, 255)

(* C8: the global output is classified against the tau_new of the pass
   that exits the loop: a sample is 255 exactly when its pixel is above
   that tau_new, whatever the tau it was compared with. *)
C8_ClassifiedByTauNew ==
  pc = "g_done"
    => \A p \in Pixels(image) :
         (binary_image[p[1]][p[2]] = 255) <=> Lt(tau_new, Whole(image[p[1]][p[2]]))

C8_Witness ==
  /\ pc = "g_done"
  /\ ~Eq(tau, tau_new)
  /\ \E p \in Pixels(image) :
       /\ Lt(tau_new, Whole(image[p[1]][p[2]]))
       /\ ~Lt(tau, Whole(image[p[1]][p[2]]))
       /\ binary_image[p[1]][p[2]] = 255

AtLeastOne(n) == IF n = 0 THEN 1 ELSE n

(* C9: a window dimension given as 0 is used as 1: the call returns what
   the call with 1 in that dimension returns, and with a 1 x 1 window the
   threshold is the pixel itself and the output sample is 0. *)
C9_ZeroWindowAsOne ==
  (InLocal /\ (arg_w_w = 0 \/ arg_h_w = 0))
    => /\ arg_w_w = 0 => w_w = 1
       /\ arg_h_w = 0 => h_w = 1
       /\ pc = "l_done" =>
            binary_image =
              local_adaptive_thresholding(image, AtLeastOne(arg_w_w),
                                          AtLeastOne(arg_h_w))
       /\ (w_w = 1 /\ h_w = 1 /\ y >= 0) =>
            /\ Eq(tau_xy, Whole(image[y + 1][x + 1]))
            /\ binary_image[y + 1][x + 1] = 0

C9_Witness ==
  /\ pc = "l_done"
  /\ arg_w_w = 0
  /\ arg_h_w = 0
  /\ \E p \in Pixels(image) : image[p[1]][p[2]] = 255

(* From the first pass on, three successive thresholds never change
   direction. *)
MonotoneFromFirstPass ==
  (pc = "g_loop" /\ IsZero(epsilon) /\ IsBound(tau_new))
    => LET t1 == threshold_step(image, tau)
           t2 == threshold_step(image, t1)
       IN /\ Leq(tau, t1) => Leq(t1, t2)
          /\ Leq(t1, tau) => Leq(t2, t1)

(* C10: with epsilon = 0 the loop still exits, at an exact fixed point
   tau_new = tau, the thresholds being monotone after the first pass; with
   epsilon < 0 the loop never exits. *)
C10_ZeroTerminatesNegativeNever ==
  /\ (pc = "g_loop" /\ IsZero(epsilon)) ~> (pc = "g_done")
  /\ []((pc = "g_done" /\ IsZero(epsilon)) => Eq(tau, tau_new))
  /\ []MonotoneFromFirstPass
  /\ [](Negative(epsilon) => pc # "g_done")

C10_Witness ==
  /\ pc = "g_done"
  /\ IsZero(epsilon)
  /\ ~Eq(tau, np_median(Flatten(image)))

====
